---- MODULE Spec2Model ----
(***************************************************************************)
(* State machine of the todo application: the list view (TodoList.tsx),    *)
(* the details view (TodoDetails, mock-API and axios variants) and the     *)
(* router that mounts one of them at a time.                               *)
(*                                                                         *)
(* A React handler is a closure over the state of the render in which it   *)
(* was created.  An async handler therefore keeps, across its await, the   *)
(* values it captured when it was called; only functional state updates    *)
(* (setTodos(prev => ...)) read the state current at completion.  Every    *)
(* request in flight is a record that carries the values its handler       *)
(* captured.                                                                *)
(***************************************************************************)
EXTENDS Integers, Sequences, FiniteSets, TLC

(***************************************************************************)
(* Bounds of the model.                                                    *)
(***************************************************************************)
\* create/update/delete requests issued by one activation of the list view
MaxReq == 2
\* toggle requests and route changes of one activation of the details view
MaxDReq == 2
\* the same, in the runs of creates and deletes in flight together
MaxRaceReq == 3
\* cap on currentPage (the code lets Next run on without limit)
MaxPage == 3
\* length of the longest list a fetch returns in the pagination runs
MaxTodos == 70
MaxToggles == 4
MaxHeap == 7

(***************************************************************************)
(* Program constants.                                                      *)
(***************************************************************************)
todosPerPage == 10
IdFloor == 200
maxPageButtons == 5

(***************************************************************************)
(* Values.  A title is a sequence of characters, so that toLowerCase and   *)
(* includes are computed on it.  A nullable value is a set with at most    *)
(* one element: {} is null.                                                *)
(***************************************************************************)
Null == {}
Some(x) == {x}
The(opt) == CHOOSE x \in opt : TRUE

TitleA == <<"a">>
TitleAb == <<"A", "b">>
FormTitles == {TitleA, TitleAb}
\* a title of one space, and the titles the Add form is submitted with
TitleBlank == <<" ">>
AddTitles == FormTitles \cup {<<>>, TitleBlank}
SearchTerms == {<<>>, <<"B">>}
FilterKeys == {"all", "completed", "incomplete"}

Todo(i, t, c, u) == [id |-> i, title |-> t, completed |-> c, userId |-> u]

\* lists the backend answers the list fetch with (ids unique, as the
\* backend's are)
SmallList == <<Todo(1, TitleAb, FALSE, 1), Todo(11, TitleA, TRUE, 1)>>
BigList ==
  [i \in 1..(todosPerPage + 1) |->
     Todo(i, IF i % 2 = 1 THEN TitleA ELSE TitleAb, i % 3 = 0, 1)]
FetchLists == {<<>>, SmallList, BigList}

\* ids of the cards whose Edit, Delete and View controls the user uses
ClickIds == {1, 11, 201, 202}

\* ids a create response may carry
ResponseIds == {1, 201}

\* errors a request may be rejected with
ErrStatus ==
  [isAxiosError |-> TRUE, isError |-> TRUE, hasResponse |-> TRUE,
   status |-> "404", statusText |-> "", dataMessage |-> <<"not found">>,
   hasRequest |-> TRUE, message |-> <<"Request failed with status code 404">>]
ErrNetwork ==
  [isAxiosError |-> TRUE, isError |-> TRUE, hasResponse |-> FALSE,
   status |-> "", statusText |-> "", dataMessage |-> <<>>,
   hasRequest |-> TRUE, message |-> <<"Network Error">>]
ErrThrown ==
  [isAxiosError |-> FALSE, isError |-> FALSE, hasResponse |-> FALSE,
   status |-> "", statusText |-> "", dataMessage |-> <<>>,
   hasRequest |-> FALSE, message |-> <<>>]
Errors == {ErrStatus, ErrNetwork, ErrThrown}
\* of these, the handlers of create, update and delete tell apart only an
\* Error from another thrown value
HandlerErrors == {ErrStatus, ErrThrown}

(***************************************************************************)
(* Pure functions of TodoList.tsx.                                         *)
(***************************************************************************)
RECURSIVE MaxOf(_)
MaxOf(S) ==
  IF Cardinality(S) = 1 THEN The(S)
  ELSE LET x == The(S)
           m == MaxOf(S \ {x})
       IN IF x > m THEN x ELSE m

Ids(ts) == {ts[i].id : i \in DOMAIN ts}

\* Math.max(...todos.map((t) => t.id), 200) + 1
NewTodoId(ts) == MaxOf(Ids(ts) \cup {IdFloor}) + 1

toLowerCaseChar(c) ==
  CASE c = "A" -> "a"
    [] c = "B" -> "b"
    [] OTHER -> c
toLowerCase(s) == [i \in DOMAIN s |-> toLowerCaseChar(s[i])]

\* String.prototype.includes
includes(s, sub) ==
  \E k \in 0..(Len(s) - Len(sub)) :
    \A j \in 1..Len(sub) : s[k + j] = sub[j]

MatchesStatus(t, fs) ==
  CASE fs = "completed" -> t.completed
    [] fs = "incomplete" -> ~t.completed
    [] OTHER -> TRUE
\* variant: the title is searched as typed, without toLowerCase
MatchesSearchExact(t, st) ==
  IF st # <<>> THEN includes(t.title, st) ELSE TRUE

MatchesSearch(t, st) ==
  IF st # <<>> THEN includes(toLowerCase(t.title), toLowerCase(st)) ELSE TRUE

Filtered(ts, fs, st) ==
  LET Keep(t) == MatchesStatus(t, fs) /\ MatchesSearch(t, st)
  IN SelectSeq(ts, Keep)

\* Array.prototype.slice(first, last), zero-based and end-exclusive
Slice(s, first, last) ==
  LET lo == IF first < Len(s) THEN first ELSE Len(s)
      hi == IF last < Len(s) THEN last ELSE Len(s)
  IN IF hi <= lo THEN <<>> ELSE [i \in 1..(hi - lo) |-> s[lo + i]]

\* variant: the quotient is rounded down
TotalPagesFloor(n) == n \div todosPerPage

\* Math.ceil(n / todosPerPage)
TotalPagesOf(n) == (n + todosPerPage - 1) \div todosPerPage

(***************************************************************************)
(* Error normalisation.  A message is a sequence of strings (the pieces of *)
(* a template literal).                                                    *)
(***************************************************************************)
\* fetchTodos, catch block
FetchErrorMessage(err) ==
  IF err.isAxiosError
  THEN IF err.hasResponse
       THEN <<"Error: ", err.status, " - ",
              IF err.statusText # "" THEN err.statusText ELSE "Server Error">>
       ELSE IF err.hasRequest
            THEN <<"Network error. No response received from server.">>
            ELSE err.message
  ELSE IF err.isError THEN err.message ELSE <<"Oops! Failed to load todos.">>

\* err instanceof Error ? err.message : fallback
HandlerErrorMessage(err, fallback) ==
  IF err.isError THEN err.message ELSE <<fallback>>

\* TodoDetails: response?.data?.message, else message, else fallback
DetailsErrorMessage(err, fallback) ==
  IF err.hasResponse /\ err.dataMessage # <<>> THEN err.dataMessage
  ELSE IF err.message # <<>> THEN err.message
  ELSE <<fallback>>

Note(m, d) == [message |-> m, description |-> d]

(***************************************************************************)
(* State.                                                                  *)
(***************************************************************************)
VARIABLES
  \* router: the mounted view and the :id route parameter
  view, id,
  \* TodoList state (useState)
  todos, loading, error, currentPage, searchTerm, filterStatus,
  isAddModalVisible, isEditModalVisible, isDeleteConfirmVisible,
  editingTodo, deletingTodoId,
  \* the validation message shown under the title field of the Add form
  addTitleError,
  showSuccessModal, successModalTitle, successModalMessage,
  \* notification.error calls of this activation, in order
  errorNotes,
  \* requests of the list view in flight, each with its handler's closure
  pending,
  \* requests issued by this activation: mutations, list fetches
  nReq, fetchCount,
  \* TodoDetails state (useState), its requests in flight and their count
  dTodo, dLoading, dError, dPending, dReq,
  \* which TodoDetails module the build includes, and the mock data store
  dVariant, mockTodos,
  \* which ErrorBoundary module the build includes, and its state
  ebVariant, hasError, ebError, errorInfo,
  \* the theme held by App (useState) and the data-theme attribute of <html>
  currentTheme, dataTheme,
  \* the objects of the mock module: the records by reference, the references
  \* the array mockTodos holds, the references a caller of mockApi holds, those
  \* among them that mockApi returned, and the outcome of the last call
  heap, mockRefs, held, returned, apiResult,
  \* history: the step that led to this state
  lastStep

listData == <<todos, loading, error>>
listUi == <<currentPage, searchTerm, filterStatus>>
dialogs ==
  <<isAddModalVisible, isEditModalVisible, isDeleteConfirmVisible,
    editingTodo, deletingTodoId, addTitleError>>
success == <<showSuccessModal, successModalTitle, successModalMessage>>
listReqs == <<errorNotes, pending, nReq, fetchCount>>
listVars == <<listData, listUi, dialogs, success, listReqs>>
detailVars == <<dTodo, dLoading, dError, dPending, dReq>>
ebVars == <<ebVariant, hasError, ebError, errorInfo>>
themeVars == <<currentTheme, dataTheme>>
apiVars == <<heap, mockRefs, held, returned, apiResult>>
appVars == <<view, id, dVariant, mockTodos, ebVars, themeVars, apiVars>>
vars == <<appVars, listVars, detailVars, lastStep>>

\* a step: the name of its action and, for a page control, the page that was
\* current and the page it asked for
Step(act, from, to) == [act |-> act, from |-> from, to |-> to]
Did(act) == Step(act, 0, 0)

(***************************************************************************)
(* Derived values of a TodoList render.                                    *)
(***************************************************************************)
filteredAndSearchedTodos == Filtered(todos, filterStatus, searchTerm)
indexOfLastTodo == currentPage * todosPerPage
indexOfFirstTodo == indexOfLastTodo - todosPerPage
currentTodos == Slice(filteredAndSearchedTodos, indexOfFirstTodo, indexOfLastTodo)
totalPages == TotalPagesOf(Len(filteredAndSearchedTodos))

\* the list screen is rendered (neither the loading nor the error screen)
ListShown == view = "list" /\ ~loading /\ error = Null
AnyModalOpen ==
  isAddModalVisible \/ isEditModalVisible \/ isDeleteConfirmVisible
    \/ showSuccessModal
\* the controls of the page can be used: no modal mask covers them
PageUsable == ListShown /\ ~AnyModalOpen

Max2(a, b) == IF a > b THEN a ELSE b
Min2(a, b) == IF a < b THEN a ELSE b

\* variant: the window is not moved back when it reaches the last page
renderPageNumbersNoAnchor(tp, cp) ==
  IF tp <= maxPageButtons
  THEN [i \in 1..tp |-> i]
  ELSE LET startPage == Max2(1, cp - (maxPageButtons \div 2))
           endPage == Min2(tp, startPage + maxPageButtons - 1)
           window == [i \in 1..(endPage - startPage + 1) |-> startPage + i - 1]
           lead == IF startPage > 1
                   THEN IF startPage > 2 THEN <<1, 0>> ELSE <<1>>
                   ELSE <<>>
           trail == IF endPage < tp
                    THEN IF endPage < tp - 1 THEN <<0, tp>> ELSE <<tp>>
                    ELSE <<>>
       IN lead \o window \o trail

\* variant: an ellipsis is pushed beside page 1 and beside the last page
\* whenever the window does not contain them
renderPageNumbersEllipsisAlways(tp, cp) ==
  IF tp <= maxPageButtons
  THEN [i \in 1..tp |-> i]
  ELSE LET start0 == Max2(1, cp - (maxPageButtons \div 2))
           endPage == Min2(tp, start0 + maxPageButtons - 1)
           startPage == IF endPage = tp
                        THEN Max2(1, tp - maxPageButtons + 1)
                        ELSE start0
           window == [i \in 1..(endPage - startPage + 1) |-> startPage + i - 1]
           lead == IF startPage > 1 THEN <<1, 0>> ELSE <<>>
           trail == IF endPage < tp THEN <<0, tp>> ELSE <<>>
       IN lead \o window \o trail

\* The entries of the page-number control for tp pages with page cp current;
\* 0 stands for an ellipsis entry.
renderPageNumbers(tp, cp) ==
  IF tp <= maxPageButtons
  THEN [i \in 1..tp |-> i]
  ELSE LET start0 == Max2(1, cp - (maxPageButtons \div 2))
           endPage == Min2(tp, start0 + maxPageButtons - 1)
           startPage == IF endPage = tp
                        THEN Max2(1, tp - maxPageButtons + 1)
                        ELSE start0
           window == [i \in 1..(endPage - startPage + 1) |-> startPage + i - 1]
           lead == IF startPage > 1
                   THEN IF startPage > 2 THEN <<1, 0>> ELSE <<1>>
                   ELSE <<>>
           trail == IF endPage < tp
                    THEN IF endPage < tp - 1 THEN <<0, tp>> ELSE <<tp>>
                    ELSE <<>>
       IN lead \o window \o trail

\* the numbers that are buttons of the control in the current render
PageButtons ==
  LET shown == renderPageNumbers(totalPages, currentPage)
  IN {shown[i] : i \in DOMAIN shown} \ {0}

(***************************************************************************)
(* Requests in flight.  closureTodos is the `todos` of the render whose    *)
(* handleAddTodo issued a create; updatedTodoData is the record            *)
(* handleUpdateTodo built before its await; deletingId is the              *)
(* deletingTodoId that handleConfirmDelete captured.                       *)
(***************************************************************************)
Request(rid, kind, title, closureTodos, updatedTodoData, deletingId) ==
  [rid |-> rid, kind |-> kind, title |-> title, closureTodos |-> closureTodos,
   updatedTodoData |-> updatedTodoData, deletingId |-> deletingId]
FetchRequest == Request(0, "get", <<>>, <<>>, Null, Null)
PendingOf(kind) == {r \in pending : r.kind = kind}

\* the body a create is answered with: the posted record under the id the
\* server chose
PostBody(r, respId) == Todo(respId, r.title, FALSE, 1)
\* a body without the fields of a todo (an empty or foreign payload)
IllFormedBody == Todo(0, <<>>, FALSE, 0)
\* the bodies an update may be answered with: the record sent, the record as
\* a server that normalises titles stores it, or an ill-formed payload
PutBodies(sent) ==
  {sent, [sent EXCEPT !.title = toLowerCase(sent.title)], IllFormedBody}

(***************************************************************************)
(* The router.  Mounting a view gives it fresh state and runs its mount    *)
(* effect; the state of the view that is left is discarded, and so are the *)
(* continuations of its requests, which can no longer change anything.     *)
(***************************************************************************)
MockStore ==
  << [id |-> "1", title |-> "Complete project documentation",
      message |-> "Write comprehensive documentation", userId |-> "user123",
      completed |-> FALSE],
     [id |-> "2", title |-> "Review pull requests",
      message |-> "Review and approve pending pull requests",
      userId |-> "user456", completed |-> TRUE],
     [id |-> "3", title |-> "Update dependencies",
      message |-> "Update all npm packages", userId |-> "user123",
      completed |-> FALSE],
     [id |-> "4", title |-> "Fix bug in authentication",
      message |-> "Resolve the JWT token refresh issue", userId |-> "user789",
      completed |-> TRUE] >>

\* useState initial values of TodoList, then the mount effect: fetchTodos
\* sets loading and clears error, and its list fetch is in flight
ListFresh(fetching) ==
  [todos |-> <<>>, loading |-> TRUE, error |-> Null, currentPage |-> 1,
   searchTerm |-> <<>>, filterStatus |-> "all",
   pending |-> IF fetching THEN {FetchRequest} ELSE {},
   fetchCount |-> IF fetching THEN 1 ELSE 0]

ListIs(f) ==
  /\ todos = f.todos /\ loading = f.loading /\ error = f.error
  /\ currentPage = f.currentPage /\ searchTerm = f.searchTerm
  /\ filterStatus = f.filterStatus
  /\ isAddModalVisible = FALSE /\ isEditModalVisible = FALSE
  /\ isDeleteConfirmVisible = FALSE
  /\ editingTodo = Null /\ deletingTodoId = Null /\ addTitleError = <<>>
  /\ showSuccessModal = FALSE /\ successModalTitle = ""
  /\ successModalMessage = <<>>
  /\ errorNotes = <<>> /\ pending = f.pending /\ nReq = 0
  /\ fetchCount = f.fetchCount

ListBecomes(f) ==
  /\ todos' = f.todos /\ loading' = f.loading /\ error' = f.error
  /\ currentPage' = f.currentPage /\ searchTerm' = f.searchTerm
  /\ filterStatus' = f.filterStatus
  /\ isAddModalVisible' = FALSE /\ isEditModalVisible' = FALSE
  /\ isDeleteConfirmVisible' = FALSE
  /\ editingTodo' = Null /\ deletingTodoId' = Null /\ addTitleError' = <<>>
  /\ showSuccessModal' = FALSE /\ successModalTitle' = ""
  /\ successModalMessage' = <<>>
  /\ errorNotes' = <<>> /\ pending' = f.pending /\ nReq' = 0
  /\ fetchCount' = f.fetchCount

\* a request of the details view: the route id a fetch was issued for, or
\* the record a toggle built before its await
DRequest(rid, kind, forId, updatedTodo) ==
  [rid |-> rid, kind |-> kind, forId |-> forId, updatedTodo |-> updatedTodo]

\* useState initial values of TodoDetails, then the mount effect
DetailsFresh(routeId) ==
  [dTodo |-> Null, dLoading |-> TRUE, dError |-> <<>>,
   dPending |-> IF routeId = Null THEN {}
                ELSE {DRequest(1, "get", The(routeId), Null)},
   dReq |-> IF routeId = Null THEN 0 ELSE 1]

DetailsIs(f) ==
  /\ dTodo = f.dTodo /\ dLoading = f.dLoading /\ dError = f.dError
  /\ dPending = f.dPending /\ dReq = f.dReq

DetailsBecomes(f) ==
  /\ dTodo' = f.dTodo /\ dLoading' = f.dLoading /\ dError' = f.dError
  /\ dPending' = f.dPending /\ dReq' = f.dReq

\* the application starts on the route "/" in a build that includes one of
\* the given TodoDetails modules
InitBuild(variants, boundaries) ==
  /\ view = "list" /\ id = Null
  /\ dVariant \in variants
  /\ mockTodos = MockStore
  /\ ebVariant \in boundaries
  /\ hasError = FALSE /\ ebError = Null /\ errorInfo = Null
  /\ currentTheme = "light"
  /\ dataTheme = currentTheme
  /\ heap = MockStore
  /\ mockRefs = [i \in DOMAIN MockStore |-> i]
  /\ held = {} /\ returned = {}
  /\ apiResult = Null
  /\ ListIs(ListFresh(TRUE))
  /\ DetailsIs(DetailsFresh(Null))
  /\ lastStep = Did("Mount")

\* the build whose TodoDetails calls /api/todos/:id through axios and whose
\* ErrorBoundary is the .tsx module
Init == InitBuild({"axios"}, {"tsx"})
\* either build: that one, or the one whose TodoDetails uses the mock API
InitAnyBuild == InitBuild({"mock", "axios"}, {"tsx"})
\* either build: the import ./components/ErrorBoundary resolved to the .tsx
\* or to the .jsx module
InitAnyBoundary == InitBuild({"axios"}, {"jsx", "tsx"})

(***************************************************************************)
(* TodoList: the initial load (fetchTodos).                                *)
(***************************************************************************)
FetchTodosSuccess(data) ==
  /\ view = "list" /\ FetchRequest \in pending
  /\ todos' = data
  /\ loading' = FALSE
  /\ pending' = pending \ {FetchRequest}
  /\ lastStep' = Did("FetchTodosSuccess")
  /\ UNCHANGED <<error, listUi, dialogs, success, errorNotes, nReq, fetchCount,
                 appVars, detailVars>>

\* variant: a failed list fetch is issued again
FetchTodosFailRetries(err) ==
  /\ view = "list" /\ FetchRequest \in pending
  /\ fetchCount < MaxReq
  /\ fetchCount' = fetchCount + 1
  /\ errorNotes' = Append(errorNotes, Note("API Error", FetchErrorMessage(err)))
  /\ lastStep' = Did("FetchTodosFail")
  /\ UNCHANGED <<todos, loading, error, pending, listUi, dialogs, success, nReq,
                 appVars, detailVars>>

FetchTodosFail(err) ==
  /\ view = "list" /\ FetchRequest \in pending
  /\ error' = Some(FetchErrorMessage(err))
  /\ errorNotes' = Append(errorNotes, Note("API Error", FetchErrorMessage(err)))
  /\ loading' = FALSE
  /\ pending' = pending \ {FetchRequest}
  /\ lastStep' = Did("FetchTodosFail")
  /\ UNCHANGED <<todos, listUi, dialogs, success, nReq, fetchCount,
                 appVars, detailVars>>

(***************************************************************************)
(* TodoList: create.                                                       *)
(***************************************************************************)
\* rules={[{ required: true, message: "What's the plan, bestie?" }]}: the
\* required rule fails for the empty string only (no whitespace: true)
TitleRule(title) == title # <<>>
TitleRuleMessage == <<"What's the plan, bestie?">>

displaySuccessModal(title, message) ==
  /\ successModalTitle' = title
  /\ successModalMessage' = message
  /\ showSuccessModal' = TRUE

OpenAddModal ==
  /\ PageUsable
  /\ isAddModalVisible' = TRUE
  /\ lastStep' = Did("OpenAddModal")
  /\ UNCHANGED <<listData, listUi, isEditModalVisible, isDeleteConfirmVisible,
                 editingTodo, deletingTodoId, addTitleError, success, listReqs,
                 appVars, detailVars>>

CancelAddModal ==
  /\ view = "list" /\ isAddModalVisible
  /\ isAddModalVisible' = FALSE
  /\ addTitleError' = <<>>
  /\ lastStep' = Did("CancelAddModal")
  /\ UNCHANGED <<listData, listUi, isEditModalVisible, isDeleteConfirmVisible,
                 editingTodo, deletingTodoId, success, listReqs,
                 appVars, detailVars>>

\* the Add form is submitted: with a title that passes its rule onFinish
\* calls handleAddTodo, which runs up to its await; otherwise the message
\* of the rule is shown under the field and onFinish is not called
\* (cap bounds the requests one activation of the view issues)
SubmitAddUpTo(title, cap) ==
  /\ view = "list" /\ isAddModalVisible
  /\ IF TitleRule(title)
     THEN /\ nReq < cap
          /\ pending' = pending \cup
               {Request(nReq + 1, "post", title, todos, Null, Null)}
          /\ nReq' = nReq + 1
          /\ addTitleError' = <<>>
     ELSE /\ addTitleError' = TitleRuleMessage
          /\ UNCHANGED <<pending, nReq>>
  /\ lastStep' = Did("SubmitAdd")
  /\ UNCHANGED <<listData, listUi, isAddModalVisible, isEditModalVisible,
                 isDeleteConfirmVisible, editingTodo, deletingTodoId, success,
                 errorNotes, fetchCount, appVars, detailVars>>

SubmitAdd(title) == SubmitAddUpTo(title, MaxReq)

\* variant: the record keeps the id of the response
NewTodoKeepsResponseId(data, closureTodos) == data

\* { ...response.data, id: Math.max(...todos.map((t) => t.id), 200) + 1 }
NewTodo(data, closureTodos) == [data EXCEPT !.id = NewTodoId(closureTodos)]

\* setTodos((prevTodos) => [newTodo, ...prevTodos])
Prepend(newTodo, prevTodos) == <<newTodo>> \o prevTodos

CreateSuccess(r, respId) ==
  /\ view = "list" /\ r \in PendingOf("post")
  /\ todos' = Prepend(NewTodo(PostBody(r, respId), r.closureTodos), todos)
  /\ isAddModalVisible' = FALSE
  /\ addTitleError' = <<>>
  /\ displaySuccessModal("Todo Added Successfully!", <<r.title, "has been added">>)
  /\ pending' = pending \ {r}
  /\ lastStep' = Did("CreateSuccess")
  /\ UNCHANGED <<loading, error, listUi, isEditModalVisible,
                 isDeleteConfirmVisible, editingTodo, deletingTodoId,
                 errorNotes, nReq, fetchCount, appVars, detailVars>>

\* variant: the record is inserted before the answer and stays after a failure
CreateFailKeepsInsert(r, err) ==
  /\ view = "list" /\ r \in PendingOf("post")
  /\ todos' = Prepend(NewTodo(PostBody(r, 0), r.closureTodos), todos)
  /\ errorNotes' = Append(errorNotes,
       Note("Add Todo Failed", HandlerErrorMessage(err, "Could not add todo.")))
  /\ pending' = pending \ {r}
  /\ lastStep' = Did("CreateFail")
  /\ UNCHANGED <<loading, error, listUi, dialogs, success, nReq, fetchCount,
                 appVars, detailVars>>

CreateFail(r, err) ==
  /\ view = "list" /\ r \in PendingOf("post")
  /\ errorNotes' = Append(errorNotes,
       Note("Add Todo Failed", HandlerErrorMessage(err, "Could not add todo.")))
  /\ pending' = pending \ {r}
  /\ lastStep' = Did("CreateFail")
  /\ UNCHANGED <<listData, listUi, dialogs, success, nReq, fetchCount,
                 appVars, detailVars>>

(***************************************************************************)
(* TodoList: update.                                                       *)
(***************************************************************************)
handleEditClick(todo) ==
  /\ PageUsable
  /\ editingTodo' = Some(todo)
  /\ isEditModalVisible' = TRUE
  /\ lastStep' = Did("handleEditClick")
  /\ UNCHANGED <<listData, listUi, isAddModalVisible, addTitleError, isDeleteConfirmVisible,
                 deletingTodoId, success, listReqs, appVars, detailVars>>

CancelEditModal ==
  /\ view = "list" /\ isEditModalVisible
  /\ isEditModalVisible' = FALSE
  /\ editingTodo' = Null
  /\ lastStep' = Did("CancelEditModal")
  /\ UNCHANGED <<listData, listUi, isAddModalVisible, addTitleError, isDeleteConfirmVisible,
                 deletingTodoId, success, listReqs, appVars, detailVars>>

\* the record handleUpdateTodo builds from editingTodo and the form values
UpdatedTodoData(editing, title, completed) ==
  Todo(editing.id, title, completed, editing.userId)

\* the edit form is submitted: handleUpdateTodo runs up to its await
SubmitEditUpTo(title, completed, cap) ==
  /\ view = "list" /\ isEditModalVisible
  /\ nReq < cap
  /\ TitleRule(title)
  /\ IF editingTodo = Null
     THEN UNCHANGED <<pending, nReq>>
     ELSE /\ pending' = pending \cup
               {Request(nReq + 1, "put", title, <<>>,
                  Some(UpdatedTodoData(The(editingTodo), title, completed)), Null)}
          /\ nReq' = nReq + 1
  /\ lastStep' = Did("SubmitEdit")
  /\ UNCHANGED <<listData, listUi, dialogs, success, errorNotes, fetchCount,
                 appVars, detailVars>>

SubmitEdit(title, completed) == SubmitEditUpTo(title, completed, MaxReq)

\* a body with the fields of a todo
WellFormedTodo(body) == body.id # 0 /\ body.title # <<>>

\* variant: the record becomes the response body when that is well-formed
ApplyUpdateFromResponse(prevTodos, updatedTodoData, body) ==
  [i \in DOMAIN prevTodos |->
     IF prevTodos[i].id = updatedTodoData.id
     THEN IF WellFormedTodo(body) THEN body ELSE updatedTodoData
     ELSE prevTodos[i]]

\* variant: an update that finds no record of its id appends the record
ApplyUpdateUpsert(prevTodos, updatedTodoData, body) ==
  IF updatedTodoData.id \in Ids(prevTodos)
  THEN [i \in DOMAIN prevTodos |->
          IF prevTodos[i].id = updatedTodoData.id THEN updatedTodoData
          ELSE prevTodos[i]]
  ELSE Append(prevTodos, updatedTodoData)

\* prevTodos.map((todo) => todo.id === editingTodo.id ? updatedTodoData : todo);
\* the response of the awaited put is not bound to a name: body is not read
ApplyUpdate(prevTodos, updatedTodoData, body) ==
  [i \in DOMAIN prevTodos |->
     IF prevTodos[i].id = updatedTodoData.id THEN updatedTodoData
     ELSE prevTodos[i]]

UpdateSuccess(r, body) ==
  /\ view = "list" /\ r \in PendingOf("put")
  /\ body \in PutBodies(The(r.updatedTodoData))
  /\ todos' = ApplyUpdate(todos, The(r.updatedTodoData), body)
  /\ isEditModalVisible' = FALSE
  /\ editingTodo' = Null
  /\ displaySuccessModal("Todo Edited Successfully!", <<r.title, "has been updated">>)
  /\ pending' = pending \ {r}
  /\ lastStep' = Did("UpdateSuccess")
  /\ UNCHANGED <<loading, error, listUi, isAddModalVisible, addTitleError,
                 isDeleteConfirmVisible, deletingTodoId,
                 errorNotes, nReq, fetchCount, appVars, detailVars>>

\* variant: the optimistic record is stored although the request failed
UpdateFailKeepsOptimistic(r, err) ==
  /\ view = "list" /\ r \in PendingOf("put")
  /\ todos' = [i \in DOMAIN todos |->
                IF todos[i].id = The(r.updatedTodoData).id
                THEN The(r.updatedTodoData) ELSE todos[i]]
  /\ errorNotes' = Append(errorNotes,
       Note("Todo Update Failed", HandlerErrorMessage(err, "Could not update todo.")))
  /\ pending' = pending \ {r}
  /\ lastStep' = Did("UpdateFail")
  /\ UNCHANGED <<loading, error, listUi, dialogs, success, nReq, fetchCount,
                 appVars, detailVars>>

UpdateFail(r, err) ==
  /\ view = "list" /\ r \in PendingOf("put")
  /\ errorNotes' = Append(errorNotes,
       Note("Todo Update Failed", HandlerErrorMessage(err, "Could not update todo.")))
  /\ pending' = pending \ {r}
  /\ lastStep' = Did("UpdateFail")
  /\ UNCHANGED <<listData, listUi, dialogs, success, nReq, fetchCount,
                 appVars, detailVars>>

(***************************************************************************)
(* TodoList: delete.                                                       *)
(***************************************************************************)
\* variant: the Delete control of a card sends the request at once
handleDeleteClickSends(i) ==
  /\ PageUsable
  /\ nReq < MaxReq
  /\ pending' = pending \cup
       {Request(nReq + 1, "delete", <<>>, <<>>, Null, Some(i))}
  /\ nReq' = nReq + 1
  /\ lastStep' = Did("handleDeleteClick")
  /\ UNCHANGED <<listData, listUi, dialogs, success, errorNotes, fetchCount,
                 appVars, detailVars>>

handleDeleteClick(i) ==
  /\ PageUsable
  /\ deletingTodoId' = Some(i)
  /\ isDeleteConfirmVisible' = TRUE
  /\ lastStep' = Did("handleDeleteClick")
  /\ UNCHANGED <<listData, listUi, isAddModalVisible, addTitleError, isEditModalVisible,
                 editingTodo, success, listReqs, appVars, detailVars>>

CancelDelete ==
  /\ view = "list" /\ isDeleteConfirmVisible
  /\ isDeleteConfirmVisible' = FALSE
  /\ deletingTodoId' = Null
  /\ lastStep' = Did("CancelDelete")
  /\ UNCHANGED <<listData, listUi, isAddModalVisible, addTitleError, isEditModalVisible,
                 editingTodo, success, listReqs, appVars, detailVars>>

\* !deletingTodoId is true of null and of the number 0
Falsy(optionalId) == optionalId = Null \/ The(optionalId) = 0

\* variant: the record is removed when the request is sent
ConfirmDeleteOptimistic ==
  /\ view = "list" /\ isDeleteConfirmVisible
  /\ nReq < MaxReq
  /\ ~Falsy(deletingTodoId)
  /\ pending' = pending \cup
       {Request(nReq + 1, "delete", <<>>, <<>>, Null, deletingTodoId)}
  /\ nReq' = nReq + 1
  /\ todos' = SelectSeq(todos, LAMBDA t : t.id # The(deletingTodoId))
  /\ lastStep' = Did("ConfirmDelete")
  /\ UNCHANGED <<loading, error, listUi, dialogs, success, errorNotes, fetchCount,
                 appVars, detailVars>>

\* the Delete button of the confirmation: handleConfirmDelete up to its await
\* (cap bounds the requests one activation of the view issues)
ConfirmDeleteUpTo(cap) ==
  /\ view = "list" /\ isDeleteConfirmVisible
  /\ nReq < cap
  /\ IF Falsy(deletingTodoId)
     THEN UNCHANGED <<pending, nReq>>
     ELSE /\ pending' = pending \cup
               {Request(nReq + 1, "delete", <<>>, <<>>, Null, deletingTodoId)}
          /\ nReq' = nReq + 1
  /\ lastStep' = Did("ConfirmDelete")
  /\ UNCHANGED <<listData, listUi, dialogs, success, errorNotes, fetchCount,
                 appVars, detailVars>>

ConfirmDelete == ConfirmDeleteUpTo(MaxReq)

\* prevTodos.filter((todo) => todo.id !== deletingTodoId)
RemoveId(prevTodos, i) ==
  LET Keep(t) == t.id # i IN SelectSeq(prevTodos, Keep)

DeleteSuccess(r) ==
  /\ view = "list" /\ r \in PendingOf("delete")
  /\ todos' = RemoveId(todos, The(r.deletingId))
  /\ isDeleteConfirmVisible' = FALSE
  /\ deletingTodoId' = Null
  /\ displaySuccessModal("Todo Deleted Successfully!", <<"Task has been deleted.">>)
  /\ pending' = pending \ {r}
  /\ lastStep' = Did("DeleteSuccess")
  /\ UNCHANGED <<loading, error, listUi, isAddModalVisible, addTitleError, isEditModalVisible,
                 editingTodo, errorNotes, nReq, fetchCount, appVars, detailVars>>

DeleteFail(r, err) ==
  /\ view = "list" /\ r \in PendingOf("delete")
  /\ errorNotes' = Append(errorNotes,
       Note("Sorry, Delete Failed", HandlerErrorMessage(err, "Could not delete todo.")))
  /\ pending' = pending \ {r}
  /\ lastStep' = Did("DeleteFail")
  /\ UNCHANGED <<listData, listUi, dialogs, success, nReq, fetchCount,
                 appVars, detailVars>>

CloseSuccessModal ==
  /\ view = "list" /\ showSuccessModal
  /\ showSuccessModal' = FALSE
  /\ lastStep' = Did("CloseSuccessModal")
  /\ UNCHANGED <<listData, listUi, dialogs, successModalTitle,
                 successModalMessage, listReqs, appVars, detailVars>>

(***************************************************************************)
(* TodoList: search, filter and pagination.                                *)
(***************************************************************************)
\* variant: the page is kept when the search term or the filter changes
ResetPageEffectKeeps(changed) == currentPage

\* useEffect(() => setCurrentPage(1), [searchTerm, filterStatus]): the effect
\* runs after a render in which one of its dependencies has changed
ResetPageEffect(changed) == IF changed THEN 1 ELSE currentPage

setSearchTerm(term) ==
  /\ PageUsable
  /\ term # searchTerm
  /\ searchTerm' = term
  /\ currentPage' = ResetPageEffect(term # searchTerm)
  /\ lastStep' = Step("setSearchTerm", currentPage, ResetPageEffect(term # searchTerm))
  /\ UNCHANGED <<listData, filterStatus, dialogs, success, listReqs,
                 appVars, detailVars>>

\* variant: the chosen filter is applied to the stored collection itself
handleFilterMenuClickStores(key) ==
  /\ PageUsable
  /\ filterStatus' = key
  /\ todos' = Filtered(todos, key, searchTerm)
  /\ currentPage' = ResetPageEffect(key # filterStatus)
  /\ lastStep' = Step("handleFilterMenuClick", currentPage, ResetPageEffect(key # filterStatus))
  /\ UNCHANGED <<loading, error, searchTerm, dialogs, success, listReqs,
                 appVars, detailVars>>

handleFilterMenuClick(key) ==
  /\ PageUsable
  /\ filterStatus' = key
  /\ currentPage' = ResetPageEffect(key # filterStatus)
  /\ lastStep' = Step("handleFilterMenuClick", currentPage, ResetPageEffect(key # filterStatus))
  /\ UNCHANGED <<listData, searchTerm, dialogs, success, listReqs,
                 appVars, detailVars>>

paginate(pageNumber) == pageNumber

\* disabled={currentPage === 1}
PreviousDisabled == currentPage = 1
\* disabled={currentPage === totalPages || totalPages === 0}
NextDisabled == currentPage = totalPages \/ totalPages = 0

PreviousPage ==
  /\ PageUsable
  /\ ~PreviousDisabled
  /\ currentPage' = paginate(currentPage - 1)
  /\ lastStep' = Step("PreviousPage", currentPage, currentPage - 1)
  /\ UNCHANGED <<listData, searchTerm, filterStatus, dialogs, success, listReqs,
                 appVars, detailVars>>

NextPage ==
  /\ PageUsable
  /\ ~NextDisabled
  /\ currentPage < Max2(MaxPage, totalPages)
  /\ currentPage' = paginate(currentPage + 1)
  /\ lastStep' = Step("NextPage", currentPage, currentPage + 1)
  /\ UNCHANGED <<listData, searchTerm, filterStatus, dialogs, success, listReqs,
                 appVars, detailVars>>

PageNumberClick(n) ==
  /\ PageUsable
  /\ n \in PageButtons
  /\ currentPage' = paginate(n)
  /\ lastStep' = Step("PageNumberClick", currentPage, n)
  /\ UNCHANGED <<listData, searchTerm, filterStatus, dialogs, success, listReqs,
                 appVars, detailVars>>

(***************************************************************************)
(* Navigation between the views.                                           *)
(***************************************************************************)
\* <Link to={`/todos/${todo.id}`}> of a card of the visible page
ViewTodo(todo) ==
  /\ PageUsable
  /\ view' = "details"
  /\ id' = Some(ToString(todo.id))
  /\ ListBecomes(ListFresh(FALSE))
  /\ DetailsBecomes(DetailsFresh(Some(ToString(todo.id))))
  /\ lastStep' = Did("ViewTodo")
  /\ UNCHANGED <<dVariant, mockTodos, ebVars, themeVars, apiVars>>

\* <Link to="/"> of the details view (or the browser's back button)
BackToList ==
  /\ view = "details"
  /\ view' = "list"
  /\ id' = Null
  /\ ListBecomes(ListFresh(TRUE))
  /\ DetailsBecomes(DetailsFresh(Null))
  /\ lastStep' = Did("BackToList")
  /\ UNCHANGED <<dVariant, mockTodos, ebVars, themeVars, apiVars>>

(***************************************************************************)
(* App: the theme.  toggleTheme is passed to TodoList, whose header button *)
(* calls it; the effect on [currentTheme] copies the value to <html>.      *)
(***************************************************************************)
Themes == {"light", "dark"}

\* variant: the updater always answers dark
ThemeAlwaysDark(prevTheme) == "dark"

\* prevTheme => (prevTheme === 'light' ? 'dark' : 'light')
ThemeAfterToggle(prevTheme) == IF prevTheme = "light" THEN "dark" ELSE "light"

\* a theme as the number a step records
ThemeIndex(theme) == IF theme = "light" THEN 1 ELSE 2

toggleTheme ==
  /\ PageUsable
  /\ currentTheme' = ThemeAfterToggle(currentTheme)
  /\ dataTheme' = currentTheme'
  /\ lastStep' = Step("toggleTheme", ThemeIndex(currentTheme),
                      ThemeIndex(ThemeAfterToggle(currentTheme)))
  /\ UNCHANGED <<view, id, dVariant, mockTodos, ebVars, apiVars, listVars, detailVars>>

(***************************************************************************)
(* TodoDetails.  In the mock variant (USE_MOCK_API) a request is a timer   *)
(* over the module-level store mockTodos; in the axios variant it goes to  *)
(* /api/todos/:id, whose answers are not the program's to decide.          *)
(***************************************************************************)
DetailIds == {"1", "9"}
IllFormedDetails ==
  [id |-> "", title |-> "", message |-> "", userId |-> "", completed |-> FALSE]
AxiosGetBodies(tid) ==
  {[id |-> tid, title |-> "t", message |-> "m", userId |-> "u",
    completed |-> FALSE], IllFormedDetails}
AxiosPutBodies(sent) == {sent, IllFormedDetails}

\* the rejection value of mockApi: a plain object, not an Error
MockNotFound(tid) ==
  [isAxiosError |-> FALSE, isError |-> FALSE, hasResponse |-> TRUE,
   status |-> "404", statusText |-> "",
   dataMessage |-> <<"Todo with id ", tid, " not found">>,
   hasRequest |-> FALSE, message |-> <<>>]

\* mockTodos.findIndex(t => t.id === id), 0 when there is none
FindIndex(store, tid) ==
  IF \E i \in DOMAIN store : store[i].id = tid
  THEN CHOOSE i \in DOMAIN store :
         /\ store[i].id = tid
         /\ \A j \in 1..(i - 1) : store[j].id # tid
  ELSE 0

\* mockApi.getTodo when its timer fires: a copy of the record, or not found
mockGetTodo(store, tid) ==
  IF FindIndex(store, tid) # 0
  THEN [ok |-> TRUE, data |-> Some(store[FindIndex(store, tid)]), err |-> Null]
  ELSE [ok |-> FALSE, data |-> Null, err |-> Some(MockNotFound(tid))]

\* mockApi.updateTodo when its timer fires: the store afterwards and the answer
mockUpdateTodo(store, tid, updatedTodo) ==
  IF FindIndex(store, tid) # 0
  THEN [ok |-> TRUE, store |-> [store EXCEPT ![FindIndex(store, tid)] = updatedTodo],
        data |-> Some(updatedTodo), err |-> Null]
  ELSE [ok |-> FALSE, store |-> store, data |-> Null,
        err |-> Some(MockNotFound(tid))]

\* setTimeout order: getTodo takes 500 ms and updateTodo 300 ms, so a request
\* can only be overtaken by an updateTodo issued after a getTodo
MockReady(r) ==
  \A q \in dPending : q.rid < r.rid => (q.kind = "get" /\ r.kind = "put")

FetchTodoSuccess(r, body) ==
  /\ view = "details" /\ r \in dPending /\ r.kind = "get"
  /\ IF dVariant = "mock"
     THEN /\ MockReady(r)
          /\ mockGetTodo(mockTodos, r.forId).ok
          /\ body = The(mockGetTodo(mockTodos, r.forId).data)
     ELSE body \in AxiosGetBodies(r.forId)
  /\ dTodo' = Some(body)
  /\ dError' = <<>>
  /\ dLoading' = FALSE
  /\ dPending' = dPending \ {r}
  /\ lastStep' = Did("FetchTodoSuccess")
  /\ UNCHANGED <<dReq, appVars, listVars>>

FetchTodoFail(r, err) ==
  /\ view = "details" /\ r \in dPending /\ r.kind = "get"
  /\ IF dVariant = "mock"
     THEN /\ MockReady(r)
          /\ ~mockGetTodo(mockTodos, r.forId).ok
          /\ err = The(mockGetTodo(mockTodos, r.forId).err)
     ELSE err \in Errors
  /\ dError' = DetailsErrorMessage(err, "An unexpected error occurred")
  /\ dLoading' = FALSE
  /\ dPending' = dPending \ {r}
  /\ lastStep' = Did("FetchTodoFail")
  /\ UNCHANGED <<dTodo, dReq, appVars, listVars>>

\* the record is rendered, with its toggle button
DetailsShown == view = "details" /\ ~dLoading /\ dError = <<>> /\ dTodo # Null

\* { ...todo, completed: !todo.completed }
ToggledTodo(todo) == [todo EXCEPT !.completed = ~todo.completed]

\* the toggle button: handleToggleComplete runs up to its await
\* (cap bounds the requests one activation of the view issues)
handleToggleCompleteUpTo(cap) ==
  /\ DetailsShown
  /\ dReq <= cap
  /\ dPending' = dPending \cup
       {DRequest(dReq + 1, "put", The(dTodo).id, Some(ToggledTodo(The(dTodo))))}
  /\ dReq' = dReq + 1
  /\ lastStep' = Did("handleToggleComplete")
  /\ UNCHANGED <<dTodo, dLoading, dError, appVars, listVars>>

handleToggleComplete == handleToggleCompleteUpTo(MaxDReq)

\* setTodo(response.data)
AdoptResponse(updatedTodo, body) == body

ToggleSuccess(r, body) ==
  /\ view = "details" /\ r \in dPending /\ r.kind = "put"
  /\ IF dVariant = "mock"
     THEN /\ MockReady(r)
          /\ mockUpdateTodo(mockTodos, r.forId, The(r.updatedTodo)).ok
          /\ body = The(mockUpdateTodo(mockTodos, r.forId, The(r.updatedTodo)).data)
          /\ mockTodos' = mockUpdateTodo(mockTodos, r.forId, The(r.updatedTodo)).store
     ELSE /\ body \in AxiosPutBodies(The(r.updatedTodo))
          /\ UNCHANGED mockTodos
  /\ dTodo' = Some(AdoptResponse(The(r.updatedTodo), body))
  /\ dPending' = dPending \ {r}
  /\ lastStep' = Did("ToggleSuccess")
  /\ UNCHANGED <<dLoading, dError, dReq, view, id, dVariant, ebVars, themeVars, apiVars, listVars>>

ToggleFail(r, err) ==
  /\ view = "details" /\ r \in dPending /\ r.kind = "put"
  /\ IF dVariant = "mock"
     THEN /\ MockReady(r)
          /\ ~mockUpdateTodo(mockTodos, r.forId, The(r.updatedTodo)).ok
          /\ err = The(mockUpdateTodo(mockTodos, r.forId, The(r.updatedTodo)).err)
     ELSE err \in Errors
  /\ dError' = DetailsErrorMessage(err, "Failed to update todo")
  /\ dPending' = dPending \ {r}
  /\ lastStep' = Did("ToggleFail")
  /\ UNCHANGED <<dTodo, dLoading, dReq, appVars, listVars>>

\* the route parameter changes while TodoDetails stays mounted: the effect
\* with dependency [id] runs fetchTodo again
RouteChange(newId) ==
  /\ view = "details"
  /\ newId # The(id)
  /\ dReq <= MaxDReq
  /\ id' = Some(newId)
  /\ dPending' = dPending \cup {DRequest(dReq + 1, "get", newId, Null)}
  /\ dReq' = dReq + 1
  /\ lastStep' = Did("RouteChange")
  /\ UNCHANGED <<dTodo, dLoading, dError, view, dVariant, mockTodos, ebVars, themeVars, apiVars,
                 listVars>>

(***************************************************************************)
(* The specification.                                                      *)
(***************************************************************************)
\* the cards of the visible page the user acts on
VisibleTodos ==
  {currentTodos[i] : i \in DOMAIN currentTodos} \cap
    {t \in {currentTodos[i] : i \in DOMAIN currentTodos} : t.id \in ClickIds}

Next ==
  \/ \E data \in FetchLists : FetchTodosSuccess(data)
  \/ \E err \in Errors : FetchTodosFail(err)
  \/ OpenAddModal
  \/ CancelAddModal
  \/ \E title \in AddTitles : SubmitAdd(title)
  \/ \E r \in pending, respId \in ResponseIds : CreateSuccess(r, respId)
  \/ \E r \in pending, err \in HandlerErrors : CreateFail(r, err)
  \/ \E todo \in VisibleTodos : handleEditClick(todo)
  \/ CancelEditModal
  \/ \E title \in FormTitles, completed \in BOOLEAN : SubmitEdit(title, completed)
  \/ \E r \in PendingOf("put") :
       \E body \in PutBodies(The(r.updatedTodoData)) : UpdateSuccess(r, body)
  \/ \E r \in pending, err \in HandlerErrors : UpdateFail(r, err)
  \/ \E todo \in VisibleTodos : handleDeleteClick(todo.id)
  \/ CancelDelete
  \/ ConfirmDelete
  \/ \E r \in pending : DeleteSuccess(r)
  \/ \E r \in pending, err \in HandlerErrors : DeleteFail(r, err)
  \/ CloseSuccessModal
  \/ \E term \in SearchTerms : setSearchTerm(term)
  \/ \E key \in FilterKeys : handleFilterMenuClick(key)
  \/ PreviousPage
  \/ NextPage
  \/ \E n \in 1..MaxPage : PageNumberClick(n)
  \/ \E todo \in VisibleTodos : ViewTodo(todo)
  \/ BackToList
  \/ \E r \in dPending :
       \E body \in AxiosGetBodies(r.forId) \cup
                   {mockTodos[i] : i \in DOMAIN mockTodos} :
         FetchTodoSuccess(r, body)
  \/ \E r \in dPending, err \in Errors \cup {MockNotFound(tid) : tid \in DetailIds \cup {"11"}} :
       FetchTodoFail(r, err)
  \/ handleToggleComplete
  \/ \E r \in {q \in dPending : q.kind = "put"} :
       \E body \in AxiosPutBodies(The(r.updatedTodo)) : ToggleSuccess(r, body)
  \/ \E r \in dPending, err \in Errors : ToggleFail(r, err)
  \/ \E newId \in DetailIds : RouteChange(newId)

Spec == Init /\ [][Next]_vars
SpecAnyBuild == InitAnyBuild /\ [][Next]_vars

(***************************************************************************)
(* Search, filter and pagination over long lists: the list view loads a    *)
(* list of up to MaxTodos records and the user searches, filters and       *)
(* turns pages.                                                            *)
(***************************************************************************)
\* response.data of the list fetch: n records, ids 1..n, titles and
\* completed flags varied
ListOf(n) ==
  [i \in 1..n |->
     Todo(i, IF i % 2 = 0 THEN TitleA ELSE TitleAb, i % 3 = 0, 1)]
PagingSizes == {0, 9, 10, 11, 23, 51, MaxTodos}

NextPaging ==
  \/ \E n \in PagingSizes : FetchTodosSuccess(ListOf(n))
  \/ \E term \in SearchTerms : setSearchTerm(term)
  \/ \E key \in FilterKeys : handleFilterMenuClick(key)
  \/ PreviousPage
  \/ NextPage
  \/ \E n \in PageButtons : PageNumberClick(n)

SpecPaging == Init /\ [][NextPaging]_vars

(***************************************************************************)
(* The details view when every request succeeds and the server answers a   *)
(* put with the record it was sent: up to MaxToggles clicks of the toggle.  *)
(***************************************************************************)
\* the record the server holds for a route id
FetchedDetails(tid) == CHOOSE b \in AxiosGetBodies(tid) : b.id = tid

NextToggle ==
  \/ \E data \in FetchLists : FetchTodosSuccess(data)
  \/ \E key \in FilterKeys : handleFilterMenuClick(key)
  \/ PreviousPage
  \/ NextPage
  \/ \E todo \in VisibleTodos : ViewTodo(todo)
  \/ BackToList
  \/ \E r \in dPending : FetchTodoSuccess(r, FetchedDetails(r.forId))
  \/ handleToggleCompleteUpTo(MaxToggles)
  \/ \E r \in {q \in dPending : q.kind = "put"} : ToggleSuccess(r, The(r.updatedTodo))

SpecToggle == Init /\ [][NextToggle]_vars

(***************************************************************************)
(* mockApi by reference.  The views never modify a record they hold, so    *)
(* they are modelled on the values of the store (mockTodos).  Whether a    *)
(* record handed out is a copy is a matter of object identity: here the    *)
(* records live in a heap, the array holds references, mockTodos is the    *)
(* array read through them, and a caller holds references it may modify.   *)
(***************************************************************************)
\* the ids a caller asks mockApi for: the first and the last of the store,
\* and one the store does not have
MockCallIds == {"1", "4", "9"}

\* the array mockTodos read through its references
Deref(h, refs) == [i \in DOMAIN refs |-> h[refs[i]]]

\* variant: the promise resolves with the object itself
ResolveSame(h, ref) == [heap |-> h, ref |-> ref]

\* resolve({ ...todo }): a new object with the fields of the one at ref
ResolveCopy(h, ref) == [heap |-> Append(h, h[ref]), ref |-> Len(h) + 1]

ApiOutcome(op, tid, ok, ref, err) ==
  [op |-> op, id |-> tid, ok |-> ok, ref |-> ref, err |-> err]

\* mockApi.getTodo(tid) when its timer fires
getTodo(tid) ==
  LET out == mockGetTodo(mockTodos, tid)
      res == ResolveCopy(heap, mockRefs[FindIndex(mockTodos, tid)])
  IN /\ IF out.ok
        THEN /\ Len(heap) < MaxHeap
             /\ heap' = res.heap
             /\ held' = held \cup {res.ref}
             /\ returned' = returned \cup {res.ref}
             /\ apiResult' = Some(ApiOutcome("getTodo", tid, TRUE, res.ref, Null))
        ELSE /\ UNCHANGED <<heap, held, returned>>
             /\ apiResult' = Some(ApiOutcome("getTodo", tid, FALSE, 0, out.err))
     /\ mockRefs' = mockRefs
     /\ mockTodos' = Deref(heap', mockRefs')
     /\ lastStep' = Did("getTodo")
     /\ UNCHANGED <<view, id, dVariant, ebVars, themeVars, listVars, detailVars>>

\* mockApi.updateTodo(tid, updatedTodo) when its timer fires; arg is the
\* reference of the caller's updatedTodo, which the call site has built with
\* an object literal: it is never a record that mockApi returned
updateTodo(tid, arg) ==
  LET out == mockUpdateTodo(mockTodos, tid, heap[arg])
      res == ResolveCopy(heap, arg)
  IN /\ arg \in held \ returned
     /\ IF out.ok
        THEN /\ Len(heap) < MaxHeap
             /\ mockRefs' = [mockRefs EXCEPT ![FindIndex(mockTodos, tid)] = arg]
             /\ heap' = res.heap
             /\ held' = held \cup {res.ref}
             /\ returned' = returned \cup {res.ref}
             /\ apiResult' = Some(ApiOutcome("updateTodo", tid, TRUE, res.ref, Null))
        ELSE /\ UNCHANGED <<heap, mockRefs, held, returned>>
             /\ apiResult' = Some(ApiOutcome("updateTodo", tid, FALSE, 0, out.err))
     /\ mockTodos' = Deref(heap', mockRefs')
     /\ lastStep' = Step("updateTodo", arg, 0)
     /\ UNCHANGED <<view, id, dVariant, ebVars, themeVars, listVars, detailVars>>

\* const updatedTodo = { ...todo, completed: !todo.completed }: the caller
\* builds a new object from a record it holds
CallerSpread(ref) ==
  /\ ref \in held
  /\ Len(heap) < MaxHeap
  /\ heap' = Append(heap, ToggledTodo(heap[ref]))
  /\ held' = held \cup {Len(heap) + 1}
  /\ mockTodos' = Deref(heap', mockRefs)
  /\ lastStep' = Step("CallerSpread", ref, Len(heap) + 1)
  /\ UNCHANGED <<mockRefs, returned, apiResult, view, id, dVariant, ebVars,
                 themeVars, listVars, detailVars>>

\* a caller assigns to a field of a record it holds
CallerModify(ref) ==
  /\ ref \in held
  /\ heap' = [heap EXCEPT ![ref].completed = ~@]
  /\ mockTodos' = Deref(heap', mockRefs)
  /\ lastStep' = Step("CallerModify", ref, 0)
  /\ UNCHANGED <<mockRefs, held, returned, apiResult, view, id, dVariant, ebVars,
                 themeVars, listVars, detailVars>>

NextMock ==
  \/ \E tid \in MockCallIds : getTodo(tid)
  \/ \E tid \in MockCallIds, arg \in held \ returned : updateTodo(tid, arg)
  \/ \E ref \in held : CallerSpread(ref)
  \/ \E ref \in held : CallerModify(ref)

InitMock == InitBuild({"mock"}, {"tsx"})
SpecMock == InitMock /\ [][NextMock]_vars

(***************************************************************************)
(* The theme button beside the read path, the Add dialog and the routes.   *)
(***************************************************************************)
NextTheme ==
  \/ toggleTheme
  \/ \E data \in FetchLists : FetchTodosSuccess(data)
  \/ \E term \in SearchTerms : setSearchTerm(term)
  \/ \E key \in FilterKeys : handleFilterMenuClick(key)
  \/ PreviousPage
  \/ NextPage
  \/ OpenAddModal
  \/ CancelAddModal
  \/ \E todo \in VisibleTodos : ViewTodo(todo)
  \/ BackToList

SpecTheme == Init /\ [][NextTheme]_vars

(***************************************************************************)
(* ErrorBoundary, which App renders around the routes.  A fault thrown     *)
(* while a view renders is handed to getDerivedStateFromError; the         *)
(* boundary then renders its fallback, and once that is committed          *)
(* componentDidCatch records the location info.  If the render of the      *)
(* fallback throws, the boundary has failed; there is no boundary above    *)
(* it, so React unmounts the whole tree.                                   *)
(***************************************************************************)
\* values a render can throw: an Error, or a falsy value
ThrownValues == {Some("TypeError"), Some("")}
\* this.state.error && ...
Truthy(optionalValue) == optionalValue # Null /\ The(optionalValue) # ""

\* render() with hasError set: does evaluating the fallback throw?  The .jsx
\* module reads this.state.errorInfo.componentStack, the .tsx module
\* this.state.errorInfo?.componentStack, both only when error is truthy
renderFallbackThrows(variant, thrown, info) ==
  IF Truthy(thrown)
  THEN IF variant = "jsx" THEN info = Null ELSE FALSE
  ELSE FALSE

\* a view throws while it renders: getDerivedStateFromError(error); the
\* subtree below the boundary is discarded
RenderFault(thrown) ==
  /\ view \in {"list", "details"}
  /\ ~hasError
  /\ hasError' = TRUE
  /\ ebError' = thrown
  /\ view' = "faulted"
  /\ id' = Null
  /\ ListBecomes(ListFresh(FALSE))
  /\ DetailsBecomes(DetailsFresh(Null))
  /\ lastStep' = Did("RenderFault")
  /\ UNCHANGED <<dVariant, mockTodos, ebVariant, errorInfo, themeVars, apiVars>>

\* the boundary renders with hasError set
RenderFallback ==
  /\ view = "faulted"
  /\ view' = IF renderFallbackThrows(ebVariant, ebError, errorInfo)
             THEN "crashed" ELSE "fallback"
  /\ lastStep' = Did("RenderFallback")
  /\ UNCHANGED <<id, dVariant, mockTodos, ebVars, themeVars, apiVars, listVars, detailVars>>

\* componentDidCatch(error, errorInfo): logs, then setState({ errorInfo })
\* and the fallback renders again
componentDidCatch ==
  /\ view = "fallback" /\ errorInfo = Null
  /\ errorInfo' = Some("componentStack")
  /\ view' = IF renderFallbackThrows(ebVariant, ebError, Some("componentStack"))
             THEN "crashed" ELSE "fallback"
  /\ lastStep' = Did("componentDidCatch")
  /\ UNCHANGED <<id, dVariant, mockTodos, themeVars, apiVars, ebVariant, hasError, ebError,
                 listVars, detailVars>>

NextBoundary ==
  \/ \E data \in FetchLists : FetchTodosSuccess(data)
  \/ \E err \in Errors : FetchTodosFail(err)
  \/ \E term \in SearchTerms : setSearchTerm(term)
  \/ \E key \in FilterKeys : handleFilterMenuClick(key)
  \/ PreviousPage
  \/ NextPage
  \/ \E n \in PageButtons : PageNumberClick(n)
  \/ \E todo \in VisibleTodos : ViewTodo(todo)
  \/ BackToList
  \/ \E thrown \in ThrownValues : RenderFault(thrown)
  \/ RenderFallback
  \/ componentDidCatch

SpecBoundary == InitAnyBoundary /\ [][NextBoundary]_vars

(***************************************************************************)
(* Creates and deletes in flight together: the list view loads a short     *)
(* list and the user adds and deletes records, up to MaxRaceReq requests,  *)
(* all of which succeed.                                                   *)
(***************************************************************************)
NextRace ==
  \/ \E data \in {<<>>, SmallList} : FetchTodosSuccess(data)
  \/ OpenAddModal
  \/ CancelAddModal
  \/ \E title \in FormTitles : SubmitAddUpTo(title, MaxRaceReq)
  \/ \E r \in pending : CreateSuccess(r, 201)
  \/ \E todo \in VisibleTodos : handleDeleteClick(todo.id)
  \/ CancelDelete
  \/ ConfirmDeleteUpTo(MaxRaceReq)
  \/ \E r \in pending : DeleteSuccess(r)
  \/ CloseSuccessModal
  \/ \E todo \in VisibleTodos : handleEditClick(todo)
  \/ CancelEditModal
  \/ SubmitEditUpTo(TitleAb, TRUE, MaxRaceReq)
  \/ \E r \in PendingOf("put") : UpdateSuccess(r, The(r.updatedTodoData))

SpecRace == Init /\ [][NextRace]_vars

(***************************************************************************)
(* Properties of the list view and of the details view.                    *)
(***************************************************************************)
\* a step of the mounted list view (not one that mounts or unmounts it)
ListStep == view = "list" /\ view' = "list"

IsPrefixPlusOne(old, new) ==
  Len(new) = Len(old) + 1 /\ SubSeq(new, 1, Len(old)) = old
\* exactly one notification.error with this title was raised by the step
Raised(title) ==
  /\ IsPrefixPlusOne(errorNotes, errorNotes')
  /\ errorNotes'[Len(errorNotes')].message = title

\* C1: once the list is shown, no two records of the local collection have
\* the same id.
C1_UniqueIds ==
  ListShown =>
    \A i, j \in DOMAIN todos : todos[i].id = todos[j].id => i = j

\* C2: a successful create inserts, at the head of the collection and in
\* front of the unchanged earlier records, a record whose id is
\* max(ids held locally, 200) + 1 and greater than every id held locally.
C2_CreateInsertsFreshId ==
  [][lastStep'.act = "CreateSuccess" =>
       /\ Len(todos') = Len(todos) + 1
       /\ Tail(todos') = todos
       /\ Head(todos').id = MaxOf(Ids(todos) \cup {IdFloor}) + 1
       /\ \A i \in DOMAIN todos : Head(todos').id > todos[i].id]_vars

\* C3: a failed create leaves the collection as it was (no record added,
\* none changed), raises one error notification, and changes neither the
\* add dialog nor the success notice.
C3_FailedCreateChangesNothing ==
  [][lastStep'.act = "CreateFail" =>
       /\ todos' = todos
       /\ Raised("Add Todo Failed")
       /\ UNCHANGED <<dialogs, success>>]_vars

C3_Witness ==
  /\ lastStep.act = "CreateFail"
  /\ isAddModalVisible
  /\ todos # <<>>
  /\ \E n \in DOMAIN errorNotes : errorNotes[n].message = "Add Todo Failed"

\* C4: a record leaves the collection only in the step in which a delete
\* request for its id succeeds; sending the request removes nothing, and a
\* failed delete leaves the collection unchanged and raises one error
\* notification.
C4_RemovedOnlyByDeleteSuccess ==
  [][ListStep =>
       /\ (Ids(todos) \ Ids(todos') # {} \/ Len(todos') < Len(todos)) =>
            /\ lastStep'.act = "DeleteSuccess"
            /\ \E r \in PendingOf("delete") \ pending' :
                 /\ Ids(todos) \ Ids(todos') \subseteq r.deletingId
                 /\ todos' = SelectSeq(todos, LAMBDA t : t.id # The(r.deletingId))
       /\ lastStep'.act = "ConfirmDelete" => todos' = todos
       /\ lastStep'.act = "DeleteFail" =>
            todos' = todos /\ Raised("Sorry, Delete Failed")]_vars

C4_Witness ==
  /\ lastStep.act = "DeleteFail"
  /\ isDeleteConfirmVisible
  /\ deletingTodoId # Null
  /\ The(deletingTodoId) \in Ids(todos)
  /\ errorNotes # <<>>

\* C5: a failed update stores nothing: after a failed edit of the list view
\* the collection is unchanged and one error notification is raised; after a
\* failed completion toggle of the details view the displayed record is
\* unchanged and an error message is set.
C5_FailedUpdateKeepsRecord ==
  [][/\ lastStep'.act = "UpdateFail" =>
          todos' = todos /\ Raised("Todo Update Failed")
     /\ lastStep'.act = "ToggleFail" =>
          dTodo' = dTodo /\ dError' # <<>>]_vars

C5_Witness ==
  /\ lastStep.act = "UpdateFail"
  /\ editingTodo # Null
  /\ \E i \in DOMAIN todos : todos[i] = The(editingTodo)
  /\ errorNotes # <<>>

WellFormedDetails(body) == body.id # ""

\* C6 as claimed: after a successful update the local record is the response
\* body when that body is a well-formed record, and the optimistic record
\* only when it is not.
C6_AdoptsWellFormedResponse ==
  [][/\ \A r \in PendingOf("put") :
          \A body \in PutBodies(The(r.updatedTodoData)) :
            UpdateSuccess(r, body) =>
              \A i \in DOMAIN todos :
                todos[i].id = The(r.updatedTodoData).id =>
                  todos'[i] = IF WellFormedTodo(body) THEN body
                              ELSE The(r.updatedTodoData)
     /\ \A r \in {q \in dPending : q.kind = "put"} :
          \A body \in AxiosPutBodies(The(r.updatedTodo)) :
            ToggleSuccess(r, body) =>
              dTodo' = Some(IF WellFormedDetails(body) THEN body
                            ELSE The(r.updatedTodo))]_vars

\* C6 as amended: after a successful update the list view holds, at every
\* position whose record has the id of the request, the optimistic record
\* built when the form was submitted, whatever the response body is, and
\* every other record unchanged; the details view holds the response body,
\* whatever it is.
C6_ListKeepsOptimisticDetailsAdoptsResponse ==
  [][/\ \A r \in PendingOf("put") :
          \A body \in PutBodies(The(r.updatedTodoData)) :
            UpdateSuccess(r, body) =>
              /\ Len(todos') = Len(todos)
              /\ \A i \in DOMAIN todos :
                   todos'[i] = IF todos[i].id = The(r.updatedTodoData).id
                               THEN The(r.updatedTodoData) ELSE todos[i]
     /\ \A r \in {q \in dPending : q.kind = "put"} :
          \A body \in AxiosPutBodies(The(r.updatedTodo)) :
            ToggleSuccess(r, body) => dTodo' = Some(body)]_vars

\* an edit of record 1 has succeeded and the record holds the submitted values
C6_Witness ==
  /\ lastStep.act = "UpdateSuccess"
  /\ successModalTitle = "Todo Edited Successfully!"
  /\ \E i \in DOMAIN todos :
       todos[i] = Todo(1, TitleA, TRUE, 1) /\ successModalMessage[1] = TitleA

\* C7: a delete request is sent only by the confirmation of the dialog that a
\* delete-click opened for that same id; declining, or confirming while no
\* id is selected, sends nothing and leaves the collection unchanged.
C7_DeleteOnlyAfterConfirmation ==
  [][ListStep =>
       /\ \A r \in {q \in pending' : q.kind = "delete"} \ pending :
            /\ lastStep'.act = "ConfirmDelete"
            /\ isDeleteConfirmVisible
            /\ deletingTodoId = r.deletingId
       /\ (deletingTodoId' # Null /\ deletingTodoId' # deletingTodoId) =>
            lastStep'.act = "handleDeleteClick" /\ isDeleteConfirmVisible'
       /\ (isDeleteConfirmVisible' /\ ~isDeleteConfirmVisible) =>
            lastStep'.act = "handleDeleteClick"
       /\ lastStep'.act = "CancelDelete" =>
            pending' = pending /\ todos' = todos /\ nReq' = nReq
       /\ lastStep'.act = "handleDeleteClick" =>
            pending' = pending /\ todos' = todos /\ nReq' = nReq
       /\ (lastStep'.act = "ConfirmDelete" /\ Falsy(deletingTodoId)) =>
            pending' = pending /\ todos' = todos]_vars

\* the confirmation has just sent the delete request for the selected id
C7_Witness ==
  /\ lastStep.act = "ConfirmDelete"
  /\ isDeleteConfirmVisible
  /\ \E r \in PendingOf("delete") :
       r.deletingId = deletingTodoId /\ The(r.deletingId) \in Ids(todos)

\* C8: an activation of the list view starts in Loading with its one list
\* fetch in flight and never issues another; a successful fetch makes the
\* collection the returned list and shows the list; a failed one shows the
\* error screen with a message over an empty collection; loading, once
\* false, stays false.
C8_SingleFetchLifecycle ==
  /\ [](view = "list" =>
          /\ fetchCount = 1
          /\ loading <=> FetchRequest \in pending
          /\ loading => todos = <<>> /\ error = Null
          /\ error # Null => todos = <<>> /\ The(error) # <<>>)
  /\ [][/\ \A data \in FetchLists :
             FetchTodosSuccess(data) => todos' = data /\ ListShown'
        /\ lastStep'.act = "FetchTodosFail" =>
             ~loading' /\ error' # Null /\ todos' = <<>>
        /\ ListStep =>
             /\ fetchCount' = fetchCount
             /\ ~loading => ~loading'
             /\ FetchRequest \in pending' => FetchRequest \in pending
             /\ error # Null => error' = error]_vars

\* the Error state: the fetch has failed
C8_Witness ==
  /\ lastStep.act = "FetchTodosFail"
  /\ view = "list" /\ ~loading /\ error # Null /\ todos = <<>>
  /\ pending = {} /\ fetchCount = 1

\* C9: a page control that asks for a page below 1 or above totalPages
\* leaves currentPage unchanged.
C9_NavigationStaysInRange ==
  [][(/\ lastStep'.act \in {"PreviousPage", "NextPage", "PageNumberClick"}
      /\ (lastStep'.to < 1 \/ lastStep'.to > totalPages)) =>
       currentPage' = currentPage]_vars

\* C10: a step of the list view that changes searchTerm or filterStatus
\* ends with currentPage = 1.
C10_FilterChangeResetsPage ==
  [][(ListStep /\ (searchTerm' # searchTerm \/ filterStatus' # filterStatus)) =>
       currentPage' = 1]_vars

\* the search term or the filter was changed on a later page
C10_Witness ==
  /\ lastStep.act \in {"setSearchTerm", "handleFilterMenuClick"}
  /\ lastStep.from > 1
  /\ currentPage = 1

(***************************************************************************)
(* Properties of search, filter and pagination.                            *)
(***************************************************************************)
\* two characters are the same letter, whatever their case
SameLetter(a, b) == a = b \/ {a, b} \in {{"a", "A"}, {"b", "B"}}
\* the title contains the term, ignoring case
ContainsIgnoringCase(title, term) ==
  \E off \in 0..(Len(title) - Len(term)) :
    \A j \in 1..Len(term) : SameLetter(title[off + j], term[j])
\* the record passes the status filter and the search
Passes(t) ==
  /\ filterStatus = "all" \/ t.completed = (filterStatus = "completed")
  /\ searchTerm = <<>> \/ ContainsIgnoringCase(t.title, searchTerm)
\* the positions of the collection whose record passes
PassingPositions == {i \in DOMAIN todos : Passes(todos[i])}
\* the zero-based position of collection position i among the passing ones
RankOf(i) == Cardinality({j \in PassingPositions : j < i})

\* C11: the visible page holds, in collection order, the records that pass
\* the status filter and the case-insensitive search and whose position among
\* the passing records lies in [(currentPage-1)*10, currentPage*10).
C11_VisiblePage ==
  ListShown =>
    LET lo == (currentPage - 1) * 10
        hi == currentPage * 10
        onPage == {i \in PassingPositions : lo <= RankOf(i) /\ RankOf(i) < hi}
    IN /\ Len(currentTodos) = Cardinality(onPage)
       /\ \A i \in onPage : currentTodos[RankOf(i) - lo + 1] = todos[i]

\* a second page under a status filter and a search term that matches only
\* by ignoring case
C11_Witness ==
  /\ ListShown
  /\ filterStatus = "completed" /\ searchTerm = <<"B">>
  /\ currentPage = 2
  /\ Len(currentTodos) = 2
  /\ currentTodos[1].id = 63 /\ currentTodos[2].id = 69

\* C12: totalPages is the ceiling of (number of passing records) / 10, 0
\* when no record passes, and 3 for 23 passing records.
C12_TotalPagesIsCeiling ==
  ListShown =>
    LET n == Cardinality(PassingPositions)
    IN /\ n = 0 => totalPages = 0
       /\ n > 0 => totalPages * 10 >= n /\ (totalPages - 1) * 10 < n
       /\ n = 23 => totalPages = 3

\* 23 of the 70 records pass the filter
C12_Witness ==
  /\ ListShown
  /\ Len(todos) = MaxTodos /\ filterStatus = "completed"
  /\ Cardinality(PassingPositions) = 23
  /\ totalPages = 3

\* C13: the page-number control shows every page 1..totalPages when there
\* are at most 5; with more than 5 pages and the current page in range it
\* shows 5 consecutive page numbers, one after the other, with the current
\* page among them, and beside them only the first page, the last page and
\* ellipses.
C13_PageNumberWindow ==
  ListShown =>
    LET shown == renderPageNumbers(totalPages, currentPage)
    IN /\ totalPages <= 5 =>
            Len(shown) = totalPages /\ \A i \in 1..totalPages : shown[i] = i
       /\ (totalPages > 5 /\ 1 <= currentPage /\ currentPage <= totalPages) =>
            \E first \in 1..(totalPages - 4) :
              /\ currentPage \in first..(first + 4)
              /\ \E k \in 0..(Len(shown) - 5) :
                   \A j \in 1..5 : shown[k + j] = first + j - 1
              /\ \A i \in DOMAIN shown :
                   shown[i] \in (first..(first + 4)) \cup {0, 1, totalPages}

\* the last of 7 pages is current: the window is 3..7
C13_Witness ==
  /\ ListShown
  /\ totalPages = 7 /\ currentPage = 7
  /\ renderPageNumbers(totalPages, currentPage) = <<1, 0, 3, 4, 5, 6, 7>>

(***************************************************************************)
(* Properties of validation, notifications and errors.                     *)
(***************************************************************************)
\* C14: submitting the Add form with an empty title or a title of only
\* whitespace sends no create request, shows the validation message of the
\* title field and leaves the collection unchanged.
C14_BlankTitleRejected ==
  [][\A title \in {<<>>, TitleBlank} :
       SubmitAdd(title) =>
         /\ pending' = pending /\ nReq' = nReq
         /\ todos' = todos
         /\ addTitleError' # <<>>]_vars

\* the notices on the screen: the notification.error notices raised and the
\* success modal while it is open
NoticesShown == Len(errorNotes) + (IF showSuccessModal THEN 1 ELSE 0)
SuccessSteps == {"CreateSuccess", "UpdateSuccess", "DeleteSuccess"}
FailSteps == {"CreateFail", "UpdateFail", "DeleteFail"}

\* C15: the outcome of a create, update or delete request adds exactly one
\* notice of its own to the screen, an error notice for a failure and the
\* success notice for a success, also while an earlier notice has not been
\* dismissed; neither an outcome nor the dismissal of a notice sends a
\* request.
C15_OneNoticePerOutcome ==
  [][/\ lastStep'.act \in FailSteps =>
          IsPrefixPlusOne(errorNotes, errorNotes') /\ UNCHANGED success
     /\ lastStep'.act \in SuccessSteps =>
          /\ errorNotes' = errorNotes
          /\ showSuccessModal'
          /\ NoticesShown' = NoticesShown + 1
     /\ lastStep'.act \in SuccessSteps \cup FailSteps \cup {"CloseSuccessModal"} =>
          pending' \subseteq pending /\ nReq' = nReq]_vars

\* C16: only a failed initial load puts a view on its error screen; a failed
\* create, update, delete or completion toggle reports the error and leaves
\* the view showing its data.
C16_OnlyInitialLoadFailureShowsErrorScreen ==
  [][/\ (lastStep'.act \in FailSteps /\ ListShown) => ListShown'
     /\ (lastStep'.act = "ToggleFail" /\ DetailsShown) => DetailsShown'
     /\ (ListStep /\ error = Null /\ error' # Null) =>
          lastStep'.act = "FetchTodosFail"
     /\ (view = "details" /\ view' = "details" /\ dError = <<>> /\ dError' # <<>>) =>
          lastStep'.act = "FetchTodoFail"]_vars

\* the message the normalisation rule asks for: the structured message of
\* the response body, else the transport-level message, else the fallback
PreferredMessage(err, fallback) ==
  IF err.hasResponse /\ err.dataMessage # <<>> THEN err.dataMessage
  ELSE IF err.message # <<>> THEN err.message
  ELSE <<fallback>>
LastNote(notes) == notes[Len(notes)].description

\* C17: the message shown for a failed call is the structured message of the
\* response body when there is one, else the transport-level message, else
\* the fallback string of the handler.
C17_PreferredMessageShown ==
  [][/\ \A err \in Errors :
          FetchTodosFail(err) =>
            /\ error' = Some(PreferredMessage(err, "Oops! Failed to load todos."))
            /\ LastNote(errorNotes') = The(error')
     /\ \A r \in pending, err \in HandlerErrors :
          /\ CreateFail(r, err) =>
               LastNote(errorNotes') = PreferredMessage(err, "Could not add todo.")
          /\ UpdateFail(r, err) =>
               LastNote(errorNotes') = PreferredMessage(err, "Could not update todo.")
          /\ DeleteFail(r, err) =>
               LastNote(errorNotes') = PreferredMessage(err, "Could not delete todo.")
     /\ \A r \in dPending, err \in Errors :
          /\ FetchTodoFail(r, err) =>
               dError' = PreferredMessage(err, "An unexpected error occurred")
          /\ ToggleFail(r, err) =>
               dError' = PreferredMessage(err, "Failed to update todo")]_vars

(***************************************************************************)
(* The data source as the list view sees it: the ids list() reports after  *)
(* a create that answered with a record of id respId, and after a delete.  *)
(***************************************************************************)
StoreCreate(ids, respId) == ids \cup {respId}
StoreDelete(ids, i) == ids \ {i}

\* C18 as claimed: the ids of the local collection stay equal to the ids the
\* data source reports: a successful create adds the id of the record the
\* data source answered with, a successful update changes no id, and a
\* successful delete removes the deleted id.
C18_LocalIdsFollowStore ==
  [][/\ \A r \in PendingOf("post"), respId \in ResponseIds :
          CreateSuccess(r, respId) =>
            Ids(todos') = StoreCreate(Ids(todos), respId)
     /\ \A r \in PendingOf("put") :
          \A body \in PutBodies(The(r.updatedTodoData)) :
            UpdateSuccess(r, body) => Ids(todos') = Ids(todos)
     /\ \A r \in PendingOf("delete") :
          DeleteSuccess(r) =>
            Ids(todos') = StoreDelete(Ids(todos), The(r.deletingId))]_vars

\* C18 as amended: a successful create adds to the ids of the local
\* collection the id the view synthesized, 1 + the greatest of 200 and the
\* ids held when the create was submitted, whatever id the response
\* carried; a successful update changes no id; a successful delete removes
\* the deleted id.
C18_LocalIdsFollowSynthesizedIds ==
  [][/\ \A r \in PendingOf("post"), respId \in ResponseIds :
          CreateSuccess(r, respId) =>
            Ids(todos') =
              Ids(todos) \cup {MaxOf(Ids(r.closureTodos) \cup {200}) + 1}
     /\ \A r \in PendingOf("put") :
          \A body \in PutBodies(The(r.updatedTodoData)) :
            UpdateSuccess(r, body) => Ids(todos') = Ids(todos)
     /\ \A r \in PendingOf("delete") :
          DeleteSuccess(r) => Ids(todos') = Ids(todos) \ {The(r.deletingId)}]_vars

\* a create and then a delete have succeeded on the list of records 1 and 11
C18_Witness ==
  /\ lastStep.act = "DeleteSuccess"
  /\ Ids(todos) = {11, 201}

(***************************************************************************)
(* Properties of operations in flight together.                            *)
(***************************************************************************)
\* the ids that the deletes in flight will remove
IdsBeingDeleted == {The(r.deletingId) : r \in PendingOf("delete")}

\* C19: with a create and a delete in flight together and both succeeding,
\* in either completion order, neither effect is lost.  A create that
\* succeeds while a delete is in flight puts its record at the front, keeps
\* every record, and its record is not one the delete in flight removes; a
\* delete that succeeds while a create is in flight removes the deleted
\* record and keeps every other record, in order.
C19_CreateAndDeleteBothTakeEffect ==
  [][/\ (lastStep'.act = "CreateSuccess" /\ PendingOf("delete") # {}) =>
          /\ Len(todos') = Len(todos) + 1 /\ Tail(todos') = todos
          /\ Head(todos').id \notin IdsBeingDeleted
     /\ \A r \in PendingOf("delete") :
          (DeleteSuccess(r) /\ PendingOf("post") # {}) =>
            /\ The(r.deletingId) \notin Ids(todos')
            /\ Len(todos') >= Len(todos) - 1
            /\ todos' = SelectSeq(todos, LAMBDA t : t.id # The(r.deletingId))]_vars

(***************************************************************************)
(* Properties of the error boundary.                                       *)
(***************************************************************************)
\* C20: once the boundary has captured a fault, rendering its fallback does
\* not fault, also while errorInfo is still null, with either module: the
\* tree is never torn down.
C20_FallbackNeverFaults ==
  hasError =>
    /\ view # "crashed"
    /\ view = "fallback" => ~renderFallbackThrows(ebVariant, ebError, errorInfo)


\* the records of a list, as a set
Records(list) == {list[i] : i \in DOMAIN list}

\* C21: a successful update keeps the length of the collection and changes at
\* most one position of it (the updated record stays where it was and no other
\* record changes), and a successful delete leaves the remaining records in
\* their former relative order with their former values.
C21_UpdateAndDeleteKeepOthers ==
  [][/\ lastStep'.act = "UpdateSuccess" =>
          /\ Len(todos') = Len(todos)
          /\ \E p \in 0..Len(todos) :
               \A i \in DOMAIN todos : i # p => todos'[i] = todos[i]
     /\ lastStep'.act = "DeleteSuccess" =>
          todos' = SelectSeq(todos, LAMBDA t : t \in Records(todos'))]_vars


\* the steps of the read path and of opening or cancelling a dialog
ReadPathSteps ==
  {"setSearchTerm", "handleFilterMenuClick", "PreviousPage", "NextPage",
   "PageNumberClick", "OpenAddModal", "CancelAddModal", "handleEditClick",
   "CancelEditModal", "handleDeleteClick", "CancelDelete"}

\* C22: changing the search term, changing the status filter, navigating
\* pages, and opening or cancelling a dialog leave the local collection as it
\* was, the same records in the same order.
C22_ReadPathKeepsCollection ==
  [][lastStep'.act \in ReadPathSteps => todos' = todos]_vars

\* the completed filter has just been chosen and hides a record that is
\* still in the collection
C22_Witness ==
  /\ lastStep.act = "handleFilterMenuClick"
  /\ filterStatus = "completed"
  /\ Len(filteredAndSearchedTodos) < Len(todos)


\* C24: the theme is always light or dark and starts as light; a toggle
\* switches it to the other value (so two toggles in a row restore it) and
\* changes no other state of the app.
C24_ThemeToggles ==
  /\ currentTheme = "light"
  /\ [](currentTheme \in Themes)
  /\ [][lastStep'.act = "toggleTheme" =>
          /\ currentTheme' \in Themes \ {currentTheme}
          /\ UNCHANGED <<view, id, listVars, detailVars, ebVars>>]_vars
  /\ [][(lastStep.act = "toggleTheme" /\ lastStep'.act = "toggleTheme") =>
          ThemeIndex(currentTheme') = lastStep.from]_vars

\* a toggle has just brought the theme back to light
C24_Witness ==
  /\ lastStep.act = "toggleTheme"
  /\ currentTheme = "light"


\* C25: whenever the list view shows its list, currentPage is at least 1 and
\* at most max(1, totalPages): a successful delete or edit never leaves it
\* pointing past the last page.
C25_CurrentPageInRange ==
  ListShown => 1 <= currentPage /\ currentPage <= Max2(1, totalPages)


\* C26: with more than 5 pages and the current page in range, the numbers of
\* the page-number control are strictly increasing from 1 to totalPages, two
\* numbers with no ellipsis between them are consecutive pages, and an
\* ellipsis stands between two numbers with at least one page between them.
C26_PageNumbersAndEllipses ==
  (ListShown /\ totalPages > 5 /\ 1 <= currentPage /\ currentPage <= totalPages) =>
    LET shown == renderPageNumbers(totalPages, currentPage)
        n == Len(shown)
    IN /\ shown[1] = 1 /\ shown[n] = totalPages
       /\ \A i, j \in 1..n :
            (i < j /\ shown[i] # 0 /\ shown[j] # 0) => shown[i] < shown[j]
       /\ \A i \in 1..(n - 1) :
            (shown[i] # 0 /\ shown[i + 1] # 0) => shown[i + 1] = shown[i] + 1
       /\ \A i \in 1..n :
            shown[i] = 0 =>
              /\ 1 < i /\ i < n
              /\ shown[i - 1] # 0 /\ shown[i + 1] # 0
              /\ shown[i + 1] > shown[i - 1] + 1

\* page 4 of 7: the window 2..6 touches page 1 and page 7, no ellipsis
C26_Witness ==
  /\ ListShown
  /\ totalPages = 7 /\ currentPage = 4
  /\ renderPageNumbers(totalPages, currentPage) = <<1, 2, 3, 4, 5, 6, 7>>


\* C27: an update never adds a record: when it completes the collection has
\* its former length and, position by position, its former ids; so an update
\* of an id whose delete succeeded meanwhile leaves the collection without
\* any record of that id.
C27_UpdateNeverAdds ==
  [][\A r \in PendingOf("put") : \A body \in PutBodies(The(r.updatedTodoData)) :
       UpdateSuccess(r, body) =>
         /\ Len(todos') = Len(todos)
         /\ \A i \in DOMAIN todos : todos'[i].id = todos[i].id
         /\ (The(r.updatedTodoData).id \notin Ids(todos) =>
               The(r.updatedTodoData).id \notin Ids(todos'))]_vars

\* an update with title "Ab" has just succeeded for the record of id 1 after
\* the delete of id 1 succeeded: only the untouched record of id 11 is left
C27_Witness ==
  /\ lastStep.act = "UpdateSuccess"
  /\ successModalMessage = <<TitleAb, "has been updated">>
  /\ Len(todos) = 1
  /\ todos[1].id = 11 /\ todos[1].title # TitleAb


\* C28: the completion of a delete changes only dialog state of its own id:
\* when the confirmation is open for another id, the success of the delete
\* leaves the confirmation open and the selected id as it was.
C28_DeleteSuccessKeepsOtherDialog ==
  [][\A r \in PendingOf("delete") :
       (/\ DeleteSuccess(r)
        /\ isDeleteConfirmVisible
        /\ deletingTodoId # Null
        /\ deletingTodoId # r.deletingId) =>
         /\ isDeleteConfirmVisible'
         /\ deletingTodoId' = deletingTodoId]_vars


(***************************************************************************)
(* Properties of the details view under concurrent requests.               *)
(***************************************************************************)
\* the toggles clicked since the details view fetched its record (SpecToggle:
\* the first request of the view is the fetch, every later one a toggle)
TogglesClicked == dReq - 1

\* C29: once n toggles have all succeeded the displayed record is the fetched
\* one with its completed flag negated when n is odd and as fetched when n is
\* even, also when a toggle was clicked while the previous one was in flight.
C29_ToggleParity ==
  (DetailsShown /\ dPending = {}) =>
    The(dTodo) =
      [FetchedDetails(The(id)) EXCEPT
         !.completed = IF TogglesClicked % 2 = 0 THEN @ ELSE ~@]

\* C30: once no fetch is pending and no error is shown, the displayed record
\* has the id of the current route; the response for an id the route has left
\* does not end up displayed.
C30_DisplayedIsRouteId ==
  (/\ view = "details"
   /\ {r \in dPending : r.kind = "get"} = {}
   /\ dError = <<>>
   /\ dTodo # Null
   /\ The(dTodo).id # IllFormedDetails.id) =>
    The(dTodo).id = The(id)


(***************************************************************************)
(* Properties of the mock data source.                                     *)
(***************************************************************************)
\* the call of mockApi that the step settled
Settled(op) == lastStep'.act = op /\ apiResult' # Null /\ The(apiResult').op = op

\* C31: getTodo and updateTodo for an id the store does not have reject with
\* status 404 and a message naming the id and leave the store as it was; a
\* successful updateTodo replaces the record at that id by the given one and
\* no other, so the store keeps its number of records; and modifying a
\* record that mockApi returned does not alter the store.
C31_MockApi ==
  /\ [](Len(mockTodos) = Len(MockStore))
  /\ [][\A op \in {"getTodo", "updateTodo"} :
          (Settled(op) /\ FindIndex(mockTodos, The(apiResult').id) = 0) =>
            /\ ~The(apiResult').ok
            /\ The(The(apiResult').err).status = "404"
            /\ The(The(apiResult').err).dataMessage =
                 <<"Todo with id ", The(apiResult').id, " not found">>
            /\ mockTodos' = mockTodos /\ mockRefs' = mockRefs /\ heap' = heap]_vars
  /\ [][(Settled("updateTodo") /\ FindIndex(mockTodos, The(apiResult').id) # 0) =>
          LET at == FindIndex(mockTodos, The(apiResult').id)
          IN /\ The(apiResult').ok
             /\ mockTodos'[at] = heap[lastStep'.from]
             /\ \A i \in DOMAIN mockTodos : i # at => mockTodos'[i] = mockTodos[i]]_vars
  /\ [][(lastStep'.act = "CallerModify" /\ lastStep'.from \in returned) =>
          (heap'[lastStep'.from] # heap[lastStep'.from] /\ mockTodos' = mockTodos)]_vars

\* a caller has just modified the record getTodo returned for id 1, and the
\* store's record of id 1 still has the flag it was created with
C31_Witness ==
  /\ lastStep.act = "CallerModify"
  /\ lastStep.from \in returned
  /\ heap[lastStep.from].id = "1" /\ heap[lastStep.from].completed
  /\ mockTodos = MockStore

====
